---- MODULE Spec2Model ----
(***************************************************************************)
(* The handler-based Notifier of package notify: New, the dispatch loop    *)
(* (eventLoop / handleSignal), Close and the group that coordinates the    *)
(* shutdown, together with the transport that feeds the signal channel.    *)
(***************************************************************************)
EXTENDS Integers, Sequences, FiniteSets, TLC

\* ------------------------------------------------------------------ bounds
\* Number of raw messages the transport delivers in one run.
MaxMsgs == 2
\* Number of tasks of the caller that may call Close concurrently.
NumClosers == 2
\* Total number of Close() calls made in one run.
MaxCloseCalls == 2
\* Number of remote calls made through the free functions in one run.
MaxCalls == 2
\* Number of remote calls made through the methods of a Notifier in one run.
MaxNotifierCalls == 1
\* Longest action list of a Notification.
MaxActions == 2
\* Longest raw action list of a Notification of the flat revision.
MaxFlat == 3
\* Number of messages the transport delivers in the burst specification: more
\* than the channel buffers.
MaxBurst == 11

\* --------------------------------------------------------------- constants
channelBufferSize == 10
signalNotificationClosed == "org.freedesktop.Notifications.NotificationClosed"
signalActionInvoked == "org.freedesktop.Notifications.ActionInvoked"
\* a signal of the same interface that the package does not know
signalOther == "org.freedesktop.Notifications.ActivationToken"

ReasonExpired == 1
ReasonDismissedByUser == 2
ReasonClosedByCall == 3
ReasonUnknown == 4

\* ------------------------------------------------------------ dbus values
\* A value of a signal body (interface{}): its dynamic type and its value.
U32(n) == [t |-> "uint32", n |-> n, s |-> ""]
Str(s) == [t |-> "string", n |-> 0, s |-> s]

\* *dbus.Signal: Name and Body; NilSignal is the nil pointer.
Signal(name, body) == [Name |-> name, Body |-> body]
NilSignal == [Name |-> "<nil>", Body |-> <<>>]

ClosedMsg(id, code) == Signal(signalNotificationClosed, <<U32(id), U32(code)>>)
ActionMsg(id, key) == Signal(signalActionInvoked, <<U32(id), Str(key)>>)

\* The messages the transport delivers in the lifecycle specification.
M1 == ClosedMsg(7, 2)
M2 == ActionMsg(7, "open")
MUnknownName == Signal(signalOther, <<U32(7), Str("token")>>)
MShortBody == Signal(signalNotificationClosed, <<U32(7)>>)
MWrongType == Signal(signalActionInvoked, <<U32(7), U32(2)>>)
Msgs == {M1, M2, MUnknownName, MShortBody, MWrongType}

Closers == 1..NumClosers

\* The dispatch task as a caller of Close: a handler runs on it, and a
\* handler may call Close.
LoopCaller == NumClosers + 1
Callers == Closers \cup {LoopCaller}

VARIABLES
    newPc,           \* position of New
    matchRegistered, \* the bus-level filter (AddMatchSignal) is registered
    sigRegistered,   \* n.signal is registered with the connection (conn.Signal)
    signal,          \* n.signal: the buffered channel's content
    signalClosed,    \* n.signal has been closed by the transport
    loopPc,          \* position of the eventLoop goroutine
    cur,             \* the signal eventLoop received and passes to handleSignal
    calls,           \* handler invocations, in the order they began
    consumed,        \* messages eventLoop received, in order
    delivered,       \* messages the transport sent on n.signal, in order
    done,            \* g.done is closed
    wg,              \* g.wg counter
    onceDone,        \* g.closeOnce: done flag
    onceM,           \* g.closeOnce: mutex holder (0 = free)
    gerr,            \* g.err
    closePc,         \* position of each caller inside Close
    closeCalls,      \* Close calls begun
    closeRets,       \* values returned by Close calls, in order of return
    nCloseDone,      \* executions of close(g.done)
    nRemoveSignal,   \* executions of conn.RemoveSignal
    nRemoveMatch,    \* executions of conn.RemoveMatchSignal
    opts,            \* the options New is called with
    onClosed,        \* n.onClosed: "default" (New's no-op), "user" or "nil"
    onAction,        \* n.onAction: "default" (New's no-op), "user" or "nil"
    ran,             \* which closure each handler invocation ran, in order
    logs,            \* the lines eventLoop and handleSignal have logged
    note,            \* the Notification the caller passes to SendNotification
    closeId,         \* the id the caller passed to the last CloseNotification
    connClosed,      \* the caller's dbus.Conn has been closed
    remote,          \* the method calls issued on conn, in order, with replies
    facadeRet        \* what the last facade operation returned

vars == <<newPc, matchRegistered, sigRegistered, signal, signalClosed, loopPc,
          cur, calls, consumed, delivered, done, wg, onceDone, onceM, gerr,
          closePc, closeCalls, closeRets, nCloseDone, nRemoveSignal,
          nRemoveMatch, opts, onClosed, onAction, ran, logs, note, closeId,
          connClosed, remote, facadeRet>>

transportVars == <<matchRegistered, sigRegistered, signal, signalClosed, delivered>>
loopVars == <<loopPc, cur, calls, consumed, ran, logs>>
groupVars == <<done, wg, onceDone, onceM, gerr>>
closeVars == <<closePc, closeCalls, closeRets>>
countVars == <<nCloseDone, nRemoveSignal, nRemoveMatch>>
handlerVars == <<opts, onClosed, onAction>>
facadeVars == <<note, closeId, connClosed, remote, facadeRet>>

\* An unrecovered panic in any goroutine ends the process.
Alive == loopPc # "panicked" /\ \A c \in Callers : closePc[c] # "panicked"

\* ------------------------------------------------------------------ Reason
\* A mutation of Reason: a code outside the enumeration becomes ReasonUnknown.
Reason_Clamped(code) ==
    IF code \in {ReasonExpired, ReasonDismissedByUser, ReasonClosedByCall}
    THEN code ELSE ReasonUnknown

\* Reason(x): the conversion of a uint32 to type Reason, itself a uint32: the
\* value is kept, whether or not it is one of the four named constants.
Reason(code) == code

ReasonString(r) ==
    CASE r = ReasonExpired -> "Expired"
      [] r = ReasonDismissedByUser -> "DismissedByUser"
      [] r = ReasonClosedByCall -> "ClosedByCall"
      [] r = ReasonUnknown -> "Unknown"
      [] OTHER -> "Other"

\* ------------------------------------------------------------ handleSignal
NoCall == [kind |-> "none", ID |-> 0, Reason |-> 0, ActionKey |-> ""]

\* signal.Body[i].(uint32) / .(string) panic on a short body or another type.
BodyIs(sig, i, type) == Len(sig.Body) >= i /\ sig.Body[i].t = type

\* A mutation of handleSignal: the two positional fields are read in the
\* other order.
handleSignal_FieldsSwapped(sig) ==
    IF sig = NilSignal THEN [out |-> "return", call |-> NoCall]
    ELSE IF sig.Name = signalNotificationClosed THEN
        IF BodyIs(sig, 1, "uint32") /\ BodyIs(sig, 2, "uint32")
        THEN [out |-> "onClosed",
              call |-> [kind |-> "onClosed", ID |-> sig.Body[2].n,
                        Reason |-> Reason(sig.Body[1].n), ActionKey |-> ""]]
        ELSE [out |-> "panic", call |-> NoCall]
    ELSE IF sig.Name = signalActionInvoked THEN
        IF BodyIs(sig, 1, "uint32") /\ BodyIs(sig, 2, "string")
        THEN [out |-> "onAction",
              call |-> [kind |-> "onAction", ID |-> sig.Body[1].n,
                        Reason |-> 0, ActionKey |-> sig.Body[2].s]]
        ELSE [out |-> "panic", call |-> NoCall]
    ELSE [out |-> "log", call |-> NoCall]

\* What handleSignal does with a signal: "panic", a handler invocation
\* ("onClosed" / "onAction" with the decoded struct), "log" or "return".
handleSignal(sig) ==
    IF sig = NilSignal THEN [out |-> "return", call |-> NoCall]
    ELSE IF sig.Name = signalNotificationClosed THEN
        IF BodyIs(sig, 1, "uint32") /\ BodyIs(sig, 2, "uint32")
        THEN [out |-> "onClosed",
              call |-> [kind |-> "onClosed", ID |-> sig.Body[1].n,
                        Reason |-> Reason(sig.Body[2].n), ActionKey |-> ""]]
        ELSE [out |-> "panic", call |-> NoCall]
    ELSE IF sig.Name = signalActionInvoked THEN
        IF BodyIs(sig, 1, "uint32") /\ BodyIs(sig, 2, "string")
        THEN [out |-> "onAction",
              call |-> [kind |-> "onAction", ID |-> sig.Body[1].n,
                        Reason |-> 0, ActionKey |-> sig.Body[2].s]]
        ELSE [out |-> "panic", call |-> NoCall]
    ELSE [out |-> "log", call |-> NoCall]

\* --------------------------------------------------------------------- Init
\* The options of the package: WithOnClosed(h) and WithOnAction(h), h being a
\* closure of the caller ("user") or nil.
WithOnClosed(h) == [opt |-> "WithOnClosed", h |-> h]
WithOnAction(h) == [opt |-> "WithOnAction", h |-> h]

\* A mutation of newNotifier: the struct literal without the no-op closures.
newNotifier_NoDefaults == [onClosed |-> "nil", onAction |-> "nil"]

\* The handler fields of the struct literal New starts from.
newNotifier == [onClosed |-> "default", onAction |-> "default"]

\* for _, val := range opts { val(n) }
RECURSIVE ApplyOptions(_, _)
ApplyOptions(n, os) ==
    IF os = <<>> THEN n
    ELSE ApplyOptions(
           IF Head(os).opt = "WithOnClosed"
           THEN [n EXCEPT !.onClosed = Head(os).h]
           ELSE [n EXCEPT !.onAction = Head(os).h],
           Tail(os))

\* ----------------------------------------------------------------- durations
\* A time.Duration is an int64 of nanoseconds; an int32 cannot hold every
\* count of milliseconds a Duration has.  A Duration is written
\*    sign * ((h * Limb + l) * 1e6 + r) nanoseconds,
\* with 0 <= l < Limb = 2^16 and 0 <= r < 1e6, so that values of 2^31
\* milliseconds and more can be written.
Limb == 65536
NanosPerMilli == 1000000
Duration(sign, h, l, r) == [sign |-> sign, h |-> h, l |-> l, r |-> r]

\* const ExpireTimeoutSetByNotificationServer = time.Millisecond * -1
ExpireTimeoutSetByNotificationServer == Duration(-1, 0, 1, 0)
\* const ExpireTimeoutNever time.Duration = 0
ExpireTimeoutNever == Duration(1, 0, 0, 0)

\* A mutation of Milliseconds: the sign is lost.
Milliseconds_Magnitude(d) == [sign |-> 1, h |-> d.h, l |-> d.l]

\* A mutation of Milliseconds: the nearest millisecond.
Milliseconds_Nearest(d) ==
    LET up == IF 2 * d.r >= NanosPerMilli THEN 1 ELSE 0
        l == d.l + up
    IN [sign |-> IF d.h = 0 /\ l = 0 THEN 1 ELSE d.sign,
        h |-> d.h + l \div Limb, l |-> l % Limb]

\* time.Duration.Milliseconds(): int64(d) / 1e6, Go's integer division, which
\* truncates toward zero: the remainder r is dropped.  The result is an int64,
\* sign * (h * Limb + l).
Milliseconds(d) ==
    [sign |-> IF d.h = 0 /\ d.l = 0 THEN 1 ELSE d.sign, h |-> d.h, l |-> d.l]

\* int32(x) of an int64 x: the low 32 bits of x as a two's complement number.
Int32(m) ==
    LET hm == m.h % Limb
        half == Limb \div 2
    IN IF m.sign = 1
       THEN IF hm < half THEN hm * Limb + m.l ELSE (hm - Limb) * Limb + m.l
       ELSE IF hm < half THEN -(hm * Limb + m.l)
            ELSE IF hm = half /\ m.l = 0
            THEN -((half - 1) * Limb + (Limb - 1)) - 1
            ELSE (Limb - hm) * Limb - m.l

\* The Notification of the lifecycle specification.
NoteHi == [AppName |-> "T", ReplacesID |-> 0, AppIcon |-> "", Summary |-> "hi",
           Body |-> "", Actions |-> <<>>, Hints |-> {},
           ExpireTimeout |-> ExpireTimeoutNever]

\* The zero ServerInformation.
NoInfo == [Name |-> "", Vendor |-> "", Version |-> "", SpecVersion |-> ""]

\* An error value: its message, and the message of the error it wraps ("" for
\* an error that wraps nothing).
NilError == [msg |-> "<nil>", cause |-> ""]
\* errors.New(msg), and the errors of the transport
errors_New(msg) == [msg |-> msg, cause |-> ""]
\* fmt.Errorf(prefix + "%w", e): a new error that wraps e
Errorf_w(prefix, e) == [msg |-> prefix \o e.msg, cause |-> e.msg]
\* fmt.Errorf(prefix + "%v", e): a new error with e's text, wrapping nothing
Errorf_v(prefix, e) == [msg |-> prefix \o e.msg, cause |-> ""]
\* errors.Unwrap(e)
Unwrap(e) == IF e.cause = "" THEN NilError ELSE errors_New(e.cause)

\* What a facade operation returned: the operation, and the zero value of
\* every result with a nil error.
Ret(op) == [op |-> op, id |-> 0, ok |-> FALSE, caps |-> <<>>, info |-> NoInfo,
            err |-> NilError]
NoRet == Ret("none")

\* The state New starts from, given the options and the caller's Notification.
InitWith(os, nt) ==
    /\ opts = os
    /\ onClosed = newNotifier.onClosed
    /\ onAction = newNotifier.onAction
    /\ ran = <<>>
    /\ logs = {}
    /\ note = nt
    /\ closeId = 0
    /\ connClosed = FALSE
    /\ remote = <<>>
    /\ facadeRet = NoRet
    /\ newPc = "options"
    /\ matchRegistered = FALSE
    /\ sigRegistered = FALSE
    /\ signal = <<>>
    /\ signalClosed = FALSE
    /\ loopPc = "none"
    /\ cur = NilSignal
    /\ calls = <<>>
    /\ consumed = <<>>
    /\ delivered = <<>>
    /\ done = FALSE
    /\ wg = 0
    /\ onceDone = FALSE
    /\ onceM = 0
    /\ gerr = "nil"
    /\ closePc = [c \in Callers |-> "idle"]
    /\ closeCalls = 0
    /\ closeRets = <<>>
    /\ nCloseDone = 0
    /\ nRemoveSignal = 0
    /\ nRemoveMatch = 0

\* New called with both handlers supplied.
BothHandlers == <<WithOnClosed("user"), WithOnAction("user")>>

Init == InitWith(BothHandlers, NoteHi)

\* ---------------------------------------------------------------------- New
\* for _, val := range opts { val(n) }: the options overwrite the defaults.
New_Options ==
    /\ Alive /\ newPc = "options"
    /\ LET n == ApplyOptions([onClosed |-> onClosed, onAction |-> onAction], opts)
       IN onClosed' = n.onClosed /\ onAction' = n.onAction
    /\ newPc' = "AddMatchSignal"
    /\ UNCHANGED <<opts, facadeVars, transportVars, loopVars, groupVars,
                   closeVars, countVars>>

\* A mutation of New_AddMatchSignal: the queue is registered before the
\* result of the filter registration is looked at.
New_AddMatchSignal_QueueFirst ==
    /\ Alive /\ newPc = "AddMatchSignal"
    /\ sigRegistered' = TRUE
    /\ \E ok \in BOOLEAN :
         IF ok THEN matchRegistered' = TRUE /\ newPc' = "Signal"
               ELSE matchRegistered' = matchRegistered /\ newPc' = "failed"
    /\ UNCHANGED <<signal, signalClosed, delivered, loopVars, groupVars,
                   closeVars, countVars>>
    /\ UNCHANGED <<handlerVars, facadeVars>>

\* n.conn.AddMatchSignal(...): on error New returns (nil, err).
New_AddMatchSignal ==
    /\ Alive /\ newPc = "AddMatchSignal"
    /\ \E ok \in BOOLEAN :
         IF ok THEN matchRegistered' = TRUE /\ newPc' = "Signal"
               ELSE matchRegistered' = matchRegistered /\ newPc' = "failed"
    /\ UNCHANGED <<sigRegistered, signal, signalClosed, delivered, loopVars,
                   groupVars, closeVars, countVars>>
    /\ UNCHANGED <<handlerVars, facadeVars>>

\* A mutation of New_Signal: New goes on to start the loop without having
\* registered the queue.
New_Signal_NotRegistered ==
    /\ Alive /\ newPc = "Signal"
    /\ sigRegistered' = sigRegistered
    /\ newPc' = "Go"
    /\ UNCHANGED <<matchRegistered, signal, signalClosed, delivered, loopVars,
                   groupVars, closeVars, countVars>>
    /\ UNCHANGED <<handlerVars, facadeVars>>

\* n.conn.Signal(n.signal)
New_Signal ==
    /\ Alive /\ newPc = "Signal"
    /\ sigRegistered' = TRUE
    /\ newPc' = "Go"
    /\ UNCHANGED <<matchRegistered, signal, signalClosed, delivered, loopVars,
                   groupVars, closeVars, countVars>>
    /\ UNCHANGED <<handlerVars, facadeVars>>

\* group.Go: g.wg.Add(1)
Go_Add ==
    /\ Alive /\ newPc = "Go"
    /\ wg' = wg + 1
    /\ newPc' = "Go_spawn"
    /\ UNCHANGED <<transportVars, loopVars, done, onceDone, onceM, gerr,
                   closeVars, countVars>>
    /\ UNCHANGED <<handlerVars, facadeVars>>

\* group.Go: go f(g.done)
Go_Spawn ==
    /\ Alive /\ newPc = "Go_spawn"
    /\ loopPc' = "select"
    /\ newPc' = "Go_return"
    /\ UNCHANGED <<transportVars, cur, calls, consumed, ran, logs, groupVars,
                   closeVars, countVars>>
    /\ UNCHANGED <<handlerVars, facadeVars>>

\* A mutation of Go_Return: the counter is not decremented when Go returns,
\* so that it still counts the task Go has started.
Go_Return_KeepsCount ==
    /\ Alive /\ newPc = "Go_return"
    /\ wg' = wg
    /\ newPc' = "returned"
    /\ UNCHANGED <<transportVars, loopVars, done, onceDone, onceM, gerr,
                   closeVars, countVars>>
    /\ UNCHANGED <<handlerVars, facadeVars>>

\* group.Go returns: the deferred g.wg.Done() runs; New returns (n, nil).
Go_Return ==
    /\ Alive /\ newPc = "Go_return"
    /\ wg' = wg - 1
    /\ newPc' = "returned"
    /\ UNCHANGED <<transportVars, loopVars, done, onceDone, onceM, gerr,
                   closeVars, countVars>>
    /\ UNCHANGED <<handlerVars, facadeVars>>

\* ---------------------------------------------------------------- transport
\* A mutation of CanSend: n.signal made without a buffer, so that a send
\* completes only while eventLoop waits in its select.
CanSend_Unbuffered == signal = <<>> /\ loopPc = "select"

\* n.signal is make(chan *dbus.Signal, channelBufferSize): a send completes
\* without blocking while the buffer has room.
CanSend == Len(signal) < channelBufferSize

\* The connection sends an inbound signal, one of ms, on the registered
\* channel; max bounds the number of signals of a run.
Deliver(ms, max) ==
    /\ Alive /\ sigRegistered /\ ~signalClosed
    /\ Len(delivered) < max
    /\ CanSend
    /\ \E m \in ms :
         /\ signal' = Append(signal, m)
         /\ delivered' = Append(delivered, m)
    /\ UNCHANGED <<newPc, matchRegistered, sigRegistered, signalClosed,
                   loopVars, groupVars, closeVars, countVars>>
    /\ UNCHANGED <<handlerVars, facadeVars>>

\* The connection sends an inbound signal on every registered channel.
TransportDeliver == Deliver(Msgs, MaxMsgs)

\* The notification server sends well-formed signals of both kinds.
TransportWellFormed == Deliver({M1, M2}, MaxMsgs)

\* A burst of NotificationClosed signals.
TransportBurst == Deliver({M1}, MaxBurst)

\* The connection is torn down: it closes the channels registered with it.
TransportClose ==
    /\ Alive /\ sigRegistered /\ ~signalClosed
    /\ signalClosed' = TRUE
    /\ connClosed' = TRUE
    /\ UNCHANGED <<newPc, matchRegistered, sigRegistered, signal, delivered,
                   loopVars, groupVars, closeVars, countVars>>
    /\ UNCHANGED <<handlerVars, note, closeId, remote, facadeRet>>

\* ---------------------------------------------------------------- eventLoop
LogChannelClosed == "Signal channel closed, shutting down..."
LogGotClose == "Got Close() signal, shutting down..."
LogUnknown == "Received unknown signal"

\* The closure handleSignal calls for an outcome: n.onClosed or n.onAction.
HandlerFor(out) ==
    CASE out = "onClosed" -> onClosed
      [] out = "onAction" -> onAction
      [] OTHER -> "none"

\* A mutation of EventLoopReceive: the loop takes the newest message.
EventLoopReceive_Newest ==
    /\ Alive /\ loopPc = "select" /\ Len(signal) > 0
    /\ cur' = signal[Len(signal)]
    /\ signal' = SubSeq(signal, 1, Len(signal) - 1)
    /\ consumed' = Append(consumed, signal[Len(signal)])
    /\ loopPc' = "handleSignal"
    /\ UNCHANGED <<newPc, matchRegistered, sigRegistered, signalClosed,
                   delivered, calls, ran, logs, groupVars, closeVars,
                   countVars>>
    /\ UNCHANGED <<handlerVars, facadeVars>>

\* A mutation of EventLoopReceive: the handler is started on a task of its
\* own, so the loop takes the next message while the handler still runs.
EventLoopReceive_HandlerDetached ==
    /\ Alive /\ loopPc \in {"select", "handler"} /\ Len(signal) > 0
    /\ cur' = Head(signal)
    /\ signal' = Tail(signal)
    /\ consumed' = Append(consumed, Head(signal))
    /\ loopPc' = "handleSignal"
    /\ UNCHANGED <<newPc, matchRegistered, sigRegistered, signalClosed,
                   delivered, calls, ran, logs, groupVars, closeVars,
                   countVars>>
    /\ UNCHANGED <<handlerVars, facadeVars>>

\* case signal, ok := <-n.signal with ok: the oldest buffered message.
EventLoopReceive ==
    /\ Alive /\ loopPc = "select" /\ Len(signal) > 0
    /\ cur' = Head(signal)
    /\ signal' = Tail(signal)
    /\ consumed' = Append(consumed, Head(signal))
    /\ loopPc' = "handleSignal"
    /\ UNCHANGED <<newPc, matchRegistered, sigRegistered, signalClosed,
                   delivered, calls, ran, logs, groupVars, closeVars,
                   countVars>>
    /\ UNCHANGED <<handlerVars, facadeVars>>

\* A mutation of EventLoopChannelClosed: ok is not looked at, and the nil
\* signal a closed channel yields goes to handleSignal.
EventLoopChannelClosed_NoOkCheck ==
    /\ Alive /\ loopPc = "select" /\ signalClosed /\ signal = <<>>
    /\ cur' = NilSignal
    /\ loopPc' = "handleSignal"
    /\ UNCHANGED <<newPc, transportVars, calls, consumed, ran, logs, groupVars,
                   closeVars, countVars>>
    /\ UNCHANGED <<handlerVars, facadeVars>>

\* case signal, ok := <-n.signal with !ok: the channel is closed and drained.
EventLoopChannelClosed ==
    /\ Alive /\ loopPc = "select" /\ signalClosed /\ signal = <<>>
    /\ logs' = logs \cup {LogChannelClosed}
    /\ loopPc' = "exited"
    /\ UNCHANGED <<newPc, transportVars, cur, calls, consumed, ran, groupVars,
                   closeVars, countVars>>
    /\ UNCHANGED <<handlerVars, facadeVars>>

\* A mutation of EventLoopDone: done is only looked at between messages, once
\* a first message has been received.
EventLoopDone_AfterMessage ==
    /\ Alive /\ loopPc = "select" /\ done /\ consumed # <<>>
    /\ logs' = logs \cup {LogGotClose}
    /\ loopPc' = "exited"
    /\ UNCHANGED <<newPc, transportVars, cur, calls, consumed, ran, groupVars,
                   closeVars, countVars>>
    /\ UNCHANGED <<handlerVars, facadeVars>>

\* A mutation of EventLoopDone: on the shutdown signal the loop first hands
\* what is left in the queue over, then leaves.
EventLoopDone_Drains ==
    /\ Alive /\ loopPc = "select" /\ done
    /\ logs' = logs \cup {LogGotClose}
    /\ consumed' = consumed \o signal
    /\ signal' = <<>>
    /\ loopPc' = "exited"
    /\ UNCHANGED <<newPc, matchRegistered, sigRegistered, signalClosed,
                   delivered, cur, calls, ran, groupVars, closeVars, countVars>>
    /\ UNCHANGED <<handlerVars, facadeVars>>

\* case <-done
EventLoopDone ==
    /\ Alive /\ loopPc = "select" /\ done
    /\ logs' = logs \cup {LogGotClose}
    /\ loopPc' = "exited"
    /\ UNCHANGED <<newPc, transportVars, cur, calls, consumed, ran, groupVars,
                   closeVars, countVars>>
    /\ UNCHANGED <<handlerVars, facadeVars>>

\* A mutation of EventLoopHandle: the default branch leaves the loop.
EventLoopHandle_DefaultReturns ==
    /\ Alive /\ loopPc = "handleSignal"
    /\ LET r == handleSignal(cur)
           h == HandlerFor(r.out)
           invoked == r.out \in {"onClosed", "onAction"} /\ h # "nil"
       IN
         /\ loopPc' = CASE r.out = "panic" -> "panicked"
                        [] r.out \in {"onClosed", "onAction"} ->
                             IF h = "nil" THEN "panicked" ELSE "handler"
                        [] r.out = "log" -> "exited"
                        [] OTHER -> "select"
         /\ calls' = IF invoked THEN Append(calls, r.call) ELSE calls
         /\ ran' = IF invoked THEN Append(ran, h) ELSE ran
         /\ logs' = IF r.out = "log" THEN logs \cup {LogUnknown} ELSE logs
    /\ UNCHANGED <<newPc, transportVars, cur, consumed, groupVars, closeVars,
                   countVars>>
    /\ UNCHANGED <<handlerVars, facadeVars>>

\* A mutation of EventLoopHandle: a message is handed to its handler only when
\* its id is the one SendNotification returned last.
EventLoopHandle_OwnOnly ==
    /\ Alive /\ loopPc = "handleSignal"
    /\ LET r == handleSignal(cur)
           h == HandlerFor(r.out)
           own == r.out \in {"onClosed", "onAction"} /\ r.call.ID = facadeRet.id
           invoked == own /\ h # "nil"
       IN
         /\ loopPc' = CASE r.out = "panic" -> "panicked"
                        [] own -> IF h = "nil" THEN "panicked" ELSE "handler"
                        [] OTHER -> "select"
         /\ calls' = IF invoked THEN Append(calls, r.call) ELSE calls
         /\ ran' = IF invoked THEN Append(ran, h) ELSE ran
         /\ logs' = IF r.out = "log" THEN logs \cup {LogUnknown} ELSE logs
    /\ UNCHANGED <<newPc, transportVars, cur, consumed, groupVars, closeVars,
                   countVars>>
    /\ UNCHANGED <<handlerVars, facadeVars>>

\* n.handleSignal(signal) up to the handler invocation (or its return when
\* no handler is invoked).
EventLoopHandle ==
    /\ Alive /\ loopPc = "handleSignal"
    /\ LET r == handleSignal(cur)
           h == HandlerFor(r.out)
           invoked == r.out \in {"onClosed", "onAction"} /\ h # "nil"
       IN
         /\ loopPc' = CASE r.out = "panic" -> "panicked"
                        [] r.out \in {"onClosed", "onAction"} ->
                             IF h = "nil" THEN "panicked" ELSE "handler"
                        [] OTHER -> "select"
         /\ calls' = IF invoked THEN Append(calls, r.call) ELSE calls
         /\ ran' = IF invoked THEN Append(ran, h) ELSE ran
         /\ logs' = IF r.out = "log" THEN logs \cup {LogUnknown} ELSE logs
    /\ UNCHANGED <<newPc, transportVars, cur, consumed, groupVars, closeVars,
                   countVars>>
    /\ UNCHANGED <<handlerVars, facadeVars>>

\* n.onClosed(nc) / n.onAction(is) returns, and handleSignal with it.
HandlerReturn ==
    /\ Alive /\ loopPc = "handler"
    /\ closePc[LoopCaller] = "idle"
    /\ loopPc' = "select"
    /\ UNCHANGED <<newPc, transportVars, cur, calls, consumed, ran, logs,
                   groupVars, closeVars, countVars>>
    /\ UNCHANGED <<handlerVars, facadeVars>>

\* -------------------------------------------------------------------- Close
SetPc(c, pc) == closePc' = [closePc EXCEPT ![c] = pc]

\* n.Close() is called on the Notifier New returned.
Close_Call(c) ==
    /\ Alive /\ newPc = "returned"
    /\ closePc[c] = "idle" /\ closeCalls < MaxCloseCalls
    /\ closeCalls' = closeCalls + 1
    /\ SetPc(c, "Do")
    /\ UNCHANGED <<newPc, transportVars, loopVars, groupVars, closeRets,
                   countVars>>
    /\ UNCHANGED <<handlerVars, facadeVars>>

\* A mutation of Once_Fast: a caller that finds a call in progress does not wait.
Once_Fast_NoWait(c) ==
    /\ Alive /\ closePc[c] = "Do"
    /\ SetPc(c, IF onceDone \/ onceM # 0 THEN "return" ELSE "lock")
    /\ UNCHANGED <<newPc, transportVars, loopVars, groupVars, closeCalls,
                   closeRets, countVars>>
    /\ UNCHANGED <<handlerVars, facadeVars>>

\* g.closeOnce.Do: the fast path, taken once the done flag is set.
Once_Fast(c) ==
    /\ Alive /\ closePc[c] = "Do"
    /\ SetPc(c, IF onceDone THEN "return" ELSE "lock")
    /\ UNCHANGED <<newPc, transportVars, loopVars, groupVars, closeCalls,
                   closeRets, countVars>>
    /\ UNCHANGED <<handlerVars, facadeVars>>

\* A mutation of Once_Lock: the done flag is not read again under the mutex.
Once_Lock_NoRecheck(c) ==
    /\ Alive /\ closePc[c] = "lock" /\ onceM = 0
    /\ onceM' = c
    /\ SetPc(c, "close_done")
    /\ UNCHANGED <<newPc, transportVars, loopVars, done, wg, onceDone, gerr,
                   closeCalls, closeRets, countVars>>
    /\ UNCHANGED <<handlerVars, facadeVars>>

\* g.closeOnce.Do: the slow path takes the mutex and reads the flag again.
Once_Lock(c) ==
    /\ Alive /\ closePc[c] = "lock" /\ onceM = 0
    /\ onceM' = c
    /\ SetPc(c, IF onceDone THEN "unlock" ELSE "close_done")
    /\ UNCHANGED <<newPc, transportVars, loopVars, done, wg, onceDone, gerr,
                   closeCalls, closeRets, countVars>>
    /\ UNCHANGED <<handlerVars, facadeVars>>

\* A mutation of Close_CloseDone: the once's done flag is stored as soon as
\* the shutdown signal is raised, before the cleanup has run.
Close_CloseDone_FlagFirst(c) ==
    /\ Alive /\ closePc[c] = "close_done"
    /\ IF done
       THEN SetPc(c, "panicked") /\ UNCHANGED <<done, nCloseDone, onceDone>>
       ELSE /\ done' = TRUE /\ nCloseDone' = nCloseDone + 1 /\ SetPc(c, "wait")
            /\ onceDone' = TRUE
    /\ UNCHANGED <<newPc, transportVars, loopVars, wg, onceM, gerr,
                   closeCalls, closeRets, nRemoveSignal, nRemoveMatch>>
    /\ UNCHANGED <<handlerVars, facadeVars>>

\* close(g.done); closing a closed channel panics.
Close_CloseDone(c) ==
    /\ Alive /\ closePc[c] = "close_done"
    /\ IF done
       THEN SetPc(c, "panicked") /\ UNCHANGED <<done, nCloseDone>>
       ELSE done' = TRUE /\ nCloseDone' = nCloseDone + 1 /\ SetPc(c, "wait")
    /\ UNCHANGED <<newPc, transportVars, loopVars, wg, onceDone, onceM, gerr,
                   closeCalls, closeRets, nRemoveSignal, nRemoveMatch>>
    /\ UNCHANGED <<handlerVars, facadeVars>>

\* g.wg.Wait()
Close_Wait(c) ==
    /\ Alive /\ closePc[c] = "wait" /\ wg = 0
    /\ SetPc(c, "RemoveSignal")
    /\ UNCHANGED <<newPc, transportVars, loopVars, groupVars, closeCalls,
                   closeRets, countVars>>
    /\ UNCHANGED <<handlerVars, facadeVars>>

\* A mutation of Close_RemoveSignal: the cleanup goes on to the filter and
\* leaves the queue registered.
Close_RemoveSignal_Skipped(c) ==
    /\ Alive /\ closePc[c] = "RemoveSignal"
    /\ sigRegistered' = sigRegistered
    /\ nRemoveSignal' = nRemoveSignal
    /\ SetPc(c, "RemoveMatchSignal")
    /\ UNCHANGED <<newPc, matchRegistered, signal, signalClosed, delivered,
                   loopVars, groupVars, closeCalls, closeRets, nCloseDone,
                   nRemoveMatch>>
    /\ UNCHANGED <<handlerVars, facadeVars>>

\* A mutation of Close_RemoveSignal: the cleanup also puts the no-op handlers
\* back.
Close_RemoveSignal_ClearsHandlers(c) ==
    /\ Alive /\ closePc[c] = "RemoveSignal"
    /\ sigRegistered' = FALSE
    /\ nRemoveSignal' = nRemoveSignal + 1
    /\ SetPc(c, "RemoveMatchSignal")
    /\ onClosed' = "default" /\ onAction' = "default"
    /\ UNCHANGED <<newPc, matchRegistered, signal, signalClosed, delivered,
                   loopVars, groupVars, closeCalls, closeRets, nCloseDone,
                   nRemoveMatch>>
    /\ UNCHANGED <<opts, facadeVars>>

\* f(): n.conn.RemoveSignal(n.signal)
Close_RemoveSignal(c) ==
    /\ Alive /\ closePc[c] = "RemoveSignal"
    /\ sigRegistered' = FALSE
    /\ nRemoveSignal' = nRemoveSignal + 1
    /\ SetPc(c, "RemoveMatchSignal")
    /\ UNCHANGED <<newPc, matchRegistered, signal, signalClosed, delivered,
                   loopVars, groupVars, closeCalls, closeRets, nCloseDone,
                   nRemoveMatch>>
    /\ UNCHANGED <<handlerVars, facadeVars>>

\* A mutation of Close_RemoveMatchSignal: the cleanup also closes the
\* connection, as Close did before v0.2.0.
Close_RemoveMatchSignal_ClosesConn(c) ==
    /\ Alive /\ closePc[c] = "RemoveMatchSignal"
    /\ \E ok \in BOOLEAN :
         /\ matchRegistered' = IF ok THEN FALSE ELSE matchRegistered
         /\ gerr' = IF ok THEN "nil" ELSE "err"
    /\ nRemoveMatch' = nRemoveMatch + 1
    /\ onceDone' = TRUE
    /\ connClosed' = TRUE
    /\ SetPc(c, "unlock")
    /\ UNCHANGED <<newPc, sigRegistered, signal, signalClosed, delivered,
                   loopVars, done, wg, onceM, closeCalls, closeRets,
                   nCloseDone, nRemoveSignal>>
    /\ UNCHANGED <<handlerVars, note, closeId, remote, facadeRet>>

\* f(): return n.conn.RemoveMatchSignal(...); g.err = f(); the once's done
\* flag is stored when the function passed to Do returns.
Close_RemoveMatchSignal(c) ==
    /\ Alive /\ closePc[c] = "RemoveMatchSignal"
    /\ \E ok \in BOOLEAN :
         /\ matchRegistered' = IF ok THEN FALSE ELSE matchRegistered
         /\ gerr' = IF ok THEN "nil" ELSE "err"
    /\ nRemoveMatch' = nRemoveMatch + 1
    /\ onceDone' = TRUE
    /\ SetPc(c, "unlock")
    /\ UNCHANGED <<newPc, sigRegistered, signal, signalClosed, delivered,
                   loopVars, done, wg, onceM, closeCalls, closeRets,
                   nCloseDone, nRemoveSignal>>
    /\ UNCHANGED <<handlerVars, facadeVars>>

\* g.closeOnce.Do: the deferred o.m.Unlock()
Once_Unlock(c) ==
    /\ Alive /\ closePc[c] = "unlock" /\ onceM = c
    /\ onceM' = 0
    /\ SetPc(c, "return")
    /\ UNCHANGED <<newPc, transportVars, loopVars, done, wg, onceDone, gerr,
                   closeCalls, closeRets, countVars>>
    /\ UNCHANGED <<handlerVars, facadeVars>>

\* return g.err
Close_Return(c) ==
    /\ Alive /\ closePc[c] = "return"
    /\ closeRets' = Append(closeRets, gerr)
    /\ SetPc(c, "idle")
    /\ UNCHANGED <<newPc, transportVars, loopVars, groupVars, closeCalls,
                   countVars>>
    /\ UNCHANGED <<handlerVars, facadeVars>>

Close(c) ==
    \/ Close_Call(c)
    \/ Once_Fast(c)
    \/ Once_Lock(c)
    \/ Close_CloseDone(c)
    \/ Close_Wait(c)
    \/ Close_RemoveSignal(c)
    \/ Close_RemoveMatchSignal(c)
    \/ Once_Unlock(c)
    \/ Close_Return(c)

Next ==
    \/ New_Options
    \/ New_AddMatchSignal
    \/ New_Signal
    \/ Go_Add
    \/ Go_Spawn
    \/ Go_Return
    \/ TransportDeliver
    \/ TransportClose
    \/ EventLoopReceive
    \/ EventLoopChannelClosed
    \/ EventLoopDone
    \/ EventLoopHandle
    \/ HandlerReturn
    \/ \E c \in Closers : Close(c)

Spec == Init /\ [][Next]_vars

\* The steps of a Close call in progress.
CloseSteps(c) ==
    \/ Once_Fast(c) \/ Once_Lock(c) \/ Close_CloseDone(c) \/ Close_Wait(c)
    \/ Close_RemoveSignal(c) \/ Close_RemoveMatchSignal(c)
    \/ Once_Unlock(c) \/ Close_Return(c)

\* The scheduler runs every goroutine that can take a step, select takes a
\* case that stays ready, and a handler returns (the contract of handlers).
\* Nothing is assumed of the transport or of the caller's decision to call.
Fairness ==
    /\ WF_vars(EventLoopReceive)
    /\ WF_vars(EventLoopChannelClosed)
    /\ WF_vars(EventLoopDone)
    /\ WF_vars(EventLoopHandle)
    /\ WF_vars(HandlerReturn)
    /\ \A c \in Closers : WF_vars(CloseSteps(c))

\* The lifecycle with a notification server that sends well-formed signals.
NextLive ==
    \/ New_Options
    \/ New_AddMatchSignal
    \/ New_Signal
    \/ Go_Add
    \/ Go_Spawn
    \/ Go_Return
    \/ TransportWellFormed
    \/ TransportClose
    \/ EventLoopReceive
    \/ EventLoopChannelClosed
    \/ EventLoopDone
    \/ EventLoopHandle
    \/ HandlerReturn
    \/ \E c \in Closers : Close(c)

SpecFair == Init /\ [][NextLive]_vars /\ Fairness

\* ------------------------------------------------------------------ facade
callGetCapabilities == "org.freedesktop.Notifications.GetCapabilities"
callCloseNotification == "org.freedesktop.Notifications.CloseNotification"
callNotify == "org.freedesktop.Notifications.Notify"
callGetServerInformation == "org.freedesktop.Notifications.GetServerInformation"

\* The error a failed obj.Call carries: the server's, or the connection's
\* when it is closed.
CallErr == errors_New("dbus: call failed")
ErrClosed == errors_New("dbus: connection closed by user")
\* The errors of call.Store.
ErrStoreType == errors_New("dbus.Store: type mismatch")
ErrStoreLength == errors_New("dbus.Store: length mismatch")

\* A mutation of FlattenActions: label before key.
RECURSIVE FlattenActions_LabelFirst(_)
FlattenActions_LabelFirst(as) ==
    IF as = <<>> THEN <<>>
    ELSE <<Head(as).Label, Head(as).Key>> \o FlattenActions_LabelFirst(Tail(as))

\* for i := range note.Actions { actions = append(actions, Key, Label) }
RECURSIVE FlattenActions(_)
FlattenActions(as) ==
    IF as = <<>> THEN <<>>
    ELSE <<Head(as).Key, Head(as).Label>> \o FlattenActions(Tail(as))

\* The replies of the notification server to a call: an error, or a body.
Reply(err, body) == [err |-> err, body |-> body]
NotifyReplies ==
    { Reply(NilError, <<U32(1)>>), Reply(NilError, <<U32(42)>>),
      Reply(NilError, <<U32(0)>>),
      Reply(CallErr, <<>>), Reply(NilError, <<Str("x")>>) }
CloseReplies == { Reply(NilError, <<>>), Reply(CallErr, <<>>) }
CapsReplies ==
    { Reply(NilError, <<<<"body", "actions">>>>), Reply(NilError, <<<<"body">>>>),
      Reply(CallErr, <<>>), Reply(NilError, <<>>) }
InfoReplies ==
    { Reply(NilError, <<Str("dunst"), Str("knopwob"), Str("1.9"), Str("1.2")>>),
      Reply(NilError, <<Str("dunst"), Str("knopwob"), Str("1.10"), Str("1.2")>>),
      Reply(CallErr, <<>>), Reply(NilError, <<Str("dunst")>>) }

\* The replies a call can get: nothing but ErrClosed on a closed connection.
RepliesOn(replies) == IF connClosed THEN {Reply(ErrClosed, <<>>)} ELSE replies

\* call.Store(&ret) of a uint32: the body must be one uint32.
StoreUint32Ok(body) == Len(body) = 1 /\ body[1].t = "uint32"

\* A mutation of NotifyRet: the id of the reply is not stored.
NotifyRet_NoStore(reply) ==
    IF reply.err # NilError
    THEN [Ret("SendNotification") EXCEPT
            !.err = Errorf_w("error sending notification: ", reply.err)]
    ELSE Ret("SendNotification")

\* A mutation of NotifyRet: the errors are made with %v.
NotifyRet_NoWrap(reply) ==
    IF reply.err # NilError
    THEN [Ret("SendNotification") EXCEPT
            !.err = Errorf_v("error sending notification: ", reply.err)]
    ELSE IF ~StoreUint32Ok(reply.body)
    THEN [Ret("SendNotification") EXCEPT
            !.err = Errorf_v("error getting uint32 ret value: ", ErrStoreType)]
    ELSE [Ret("SendNotification") EXCEPT !.id = reply.body[1].n]

\* A mutation of NotifyRet: an id of 0 is replaced by 1.
NotifyRet_NeverZero(reply) ==
    IF reply.err # NilError
    THEN [Ret("SendNotification") EXCEPT
            !.err = Errorf_w("error sending notification: ", reply.err)]
    ELSE IF ~StoreUint32Ok(reply.body)
    THEN [Ret("SendNotification") EXCEPT
            !.err = Errorf_w("error getting uint32 ret value: ", ErrStoreType)]
    ELSE [Ret("SendNotification") EXCEPT
            !.id = IF reply.body[1].n = 0 THEN 1 ELSE reply.body[1].n]

\* What SendNotification returns for a reply.
NotifyRet(reply) ==
    IF reply.err # NilError
    THEN [Ret("SendNotification") EXCEPT
            !.err = Errorf_w("error sending notification: ", reply.err)]
    ELSE IF ~StoreUint32Ok(reply.body)
    THEN [Ret("SendNotification") EXCEPT
            !.err = Errorf_w("error getting uint32 ret value: ", ErrStoreType)]
    ELSE [Ret("SendNotification") EXCEPT !.id = reply.body[1].n]

\* What CloseNotification returns for a reply.
CloseRet(reply) ==
    IF reply.err # NilError
    THEN [Ret("CloseNotification") EXCEPT !.err = reply.err]
    ELSE [Ret("CloseNotification") EXCEPT !.ok = TRUE]

\* What GetCapabilities returns for a reply.
CapsRet(reply) ==
    IF reply.err # NilError
    THEN [Ret("GetCapabilities") EXCEPT !.err = reply.err]
    ELSE IF Len(reply.body) # 1
    THEN [Ret("GetCapabilities") EXCEPT !.err = ErrStoreLength]
    ELSE [Ret("GetCapabilities") EXCEPT !.caps = reply.body[1]]

\* What GetServerInformation returns for a reply.
InfoRet(reply) ==
    IF reply.err # NilError
    THEN [Ret("GetServerInformation") EXCEPT
            !.err = Errorf_v("error calling " \o callGetServerInformation
                             \o ": ", reply.err)]
    ELSE IF Len(reply.body) # 4
    THEN [Ret("GetServerInformation") EXCEPT
            !.err = Errorf_v("error reading " \o callGetServerInformation
                             \o " return values: ", ErrStoreLength)]
    ELSE [Ret("GetServerInformation") EXCEPT
            !.info = [Name |-> reply.body[1].s, Vendor |-> reply.body[2].s,
                      Version |-> reply.body[3].s,
                      SpecVersion |-> reply.body[4].s]]

\* A mutation of Call: a failed call is made once more.
Call_Retry(method, args, reply) ==
    LET c == [method |-> method, args |-> args, reply |-> reply]
    IN remote' = IF reply.err # NilError THEN remote \o <<c, c>>
                 ELSE Append(remote, c)

\* obj.Call(method, 0, args...) on the notifications object: one call on the
\* connection, which comes back with a reply.
Call(method, args, reply) ==
    remote' = Append(remote, [method |-> method, args |-> args, reply |-> reply])

\* A mutation of NotifyArgs: summary and body change places.
NotifyArgs_BodyFirst ==
    LET actions == FlattenActions(note.Actions)
        durationMs == Int32(Milliseconds(note.ExpireTimeout))
    IN <<note.AppName, note.ReplacesID, note.AppIcon, note.Body, note.Summary,
         actions, note.Hints, durationMs>>

\* The arguments of the Notify call.
NotifyArgs ==
    LET actions == FlattenActions(note.Actions)
        durationMs == Int32(Milliseconds(note.ExpireTimeout))
    IN <<note.AppName, note.ReplacesID, note.AppIcon, note.Summary, note.Body,
         actions, note.Hints, durationMs>>

\* A mutation of SendNotification: the filter and a queue are registered for
\* the call.
SendNotification_Subscribes ==
    /\ Alive /\ Len(remote) < MaxCalls
    /\ \E reply \in RepliesOn(NotifyReplies) :
         /\ Call(callNotify, NotifyArgs, reply)
         /\ facadeRet' = NotifyRet(reply)
    /\ matchRegistered' = TRUE /\ sigRegistered' = TRUE
    /\ UNCHANGED <<note, closeId, connClosed, handlerVars, newPc, signal,
                   signalClosed, delivered, loopVars, groupVars, closeVars,
                   countVars>>

\* SendNotification(conn, note)
SendNotification ==
    /\ Alive /\ Len(remote) < MaxCalls
    /\ \E reply \in RepliesOn(NotifyReplies) :
         /\ Call(callNotify, NotifyArgs, reply)
         /\ facadeRet' = NotifyRet(reply)
    /\ UNCHANGED <<note, closeId, connClosed, handlerVars, newPc,
                   transportVars, loopVars, groupVars, closeVars, countVars>>

\* The ids the caller closes.
CloseIds == {7, 42}

\* A mutation of CloseNotification: the handler is told at once.
CloseNotification_CallsHandler ==
    /\ Alive /\ Len(remote) < MaxCalls
    /\ \E id \in CloseIds, reply \in RepliesOn(CloseReplies) :
         /\ closeId' = id
         /\ Call(callCloseNotification, <<id>>, reply)
         /\ facadeRet' = CloseRet(reply)
         /\ calls' = Append(calls, [kind |-> "onClosed", ID |-> id,
                                   Reason |-> ReasonClosedByCall,
                                   ActionKey |-> ""])
         /\ ran' = Append(ran, onClosed)
    /\ UNCHANGED <<note, connClosed, handlerVars, newPc, transportVars,
                   loopPc, cur, consumed, logs, groupVars, closeVars,
                   countVars>>

\* n.CloseNotification(id)
CloseNotification ==
    /\ Alive /\ Len(remote) < MaxCalls
    /\ \E id \in CloseIds, reply \in RepliesOn(CloseReplies) :
         /\ closeId' = id
         /\ Call(callCloseNotification, <<id>>, reply)
         /\ facadeRet' = CloseRet(reply)
    /\ UNCHANGED <<note, connClosed, handlerVars, newPc, transportVars,
                   loopVars, groupVars, closeVars, countVars>>

\* The successful GetCapabilities calls made so far.
CapsKnown ==
    { i \in 1..Len(remote) : /\ remote[i].method = callGetCapabilities
                             /\ remote[i].reply.err = NilError
                             /\ Len(remote[i].reply.body) = 1 }

\* A mutation of GetCapabilities: the first answer is kept and given again.
GetCapabilities_Cached ==
    /\ Alive /\ Len(remote) < MaxCalls
    /\ IF CapsKnown # {}
       THEN /\ remote' = remote
            /\ facadeRet' = CapsRet(remote[CHOOSE i \in CapsKnown : TRUE].reply)
       ELSE \E reply \in RepliesOn(CapsReplies) :
              /\ Call(callGetCapabilities, <<>>, reply)
              /\ facadeRet' = CapsRet(reply)
    /\ UNCHANGED <<note, closeId, connClosed, handlerVars, newPc,
                   transportVars, loopVars, groupVars, closeVars, countVars>>

\* GetCapabilities(conn)
GetCapabilities ==
    /\ Alive /\ Len(remote) < MaxCalls
    /\ \E reply \in RepliesOn(CapsReplies) :
         /\ Call(callGetCapabilities, <<>>, reply)
         /\ facadeRet' = CapsRet(reply)
    /\ UNCHANGED <<note, closeId, connClosed, handlerVars, newPc,
                   transportVars, loopVars, groupVars, closeVars, countVars>>

\* GetServerInformation(conn)
GetServerInformation ==
    /\ Alive /\ Len(remote) < MaxCalls
    /\ \E reply \in RepliesOn(InfoReplies) :
         /\ Call(callGetServerInformation, <<>>, reply)
         /\ facadeRet' = InfoRet(reply)
    /\ UNCHANGED <<note, closeId, connClosed, handlerVars, newPc,
                   transportVars, loopVars, groupVars, closeVars, countVars>>

\* The methods of the Notifier New returned.
NotifierReady == newPc = "returned" /\ Len(remote) < MaxNotifierCalls
Notifier_SendNotification == NotifierReady /\ SendNotification
Notifier_CloseNotification == NotifierReady /\ CloseNotification
Notifier_GetCapabilities == NotifierReady /\ GetCapabilities
Notifier_GetServerInformation == NotifierReady /\ GetServerInformation

\* The Notifications of the facade specification.
ActionSet ==
    { [Key |-> "open", Label |-> "Open"], [Key |-> "cancel", Label |-> "Cancel"],
      [Key |-> "open", Label |-> "cancel"] }
ActionLists == UNION { [1..n -> ActionSet] : n \in 0..MaxActions }
\* The sentinels, 1500 ms, 1.7 ms, 0.9 ms, -0.5 ms, and durations around 2^31
\* and 2^32 milliseconds.
Timeouts ==
    { ExpireTimeoutNever, ExpireTimeoutSetByNotificationServer,
      Duration(1, 0, 1500, 0), Duration(1, 0, 1, 700000),
      Duration(1, 0, 0, 900000), Duration(-1, 0, 0, 500000),
      Duration(1, Limb \div 2 - 1, Limb - 1, 999999),
      Duration(1, Limb \div 2, 5, 0),
      Duration(1, Limb - 1, Limb - 1, 0),
      Duration(1, Limb, 0, 0) }
\* A Notification whose fields all differ from one another; Hints is the set
\* of the map's (key, value) entries.
NoteFull ==
    [AppName |-> "Test App", ReplacesID |-> 7, AppIcon |-> "mail-unread",
     Summary |-> "Subject", Body |-> "text",
     Actions |-> <<[Key |-> "open", Label |-> "Open"]>>,
     Hints |-> {<<"urgency", 2>>, <<"category", "email">>},
     ExpireTimeout |-> Duration(1, 0, 1500, 0)]

Notes ==
    { [NoteHi EXCEPT !.Actions = as, !.ExpireTimeout = d, !.ReplacesID = r] :
        as \in ActionLists, d \in Timeouts, r \in {0, 7} }
    \cup {NoteFull}

InitFacade == \E nt \in Notes : InitWith(BothHandlers, nt)

NextFacade == SendNotification

SpecFacade == InitFacade /\ [][NextFacade]_vars

\* --------------------------------------------------- query specification
\* A caller that has a connection and no Notifier uses the free functions.
NextQuery ==
    \/ SendNotification
    \/ GetCapabilities
    \/ GetServerInformation

SpecQuery == Init /\ [][NextQuery]_vars

\* ----------------------------------------------------------- flat revision
\* The revision whose Notification carries Actions as a flat []string and
\* ExpireTimeout as an int32 of milliseconds.
ErrPairs == errors_New("actions must be pairs of (key, label)")

\* What the flat SendNotification returns for a reply.
NotifyRetFlat(reply) ==
    IF reply.err # NilError
    THEN [Ret("SendNotification") EXCEPT !.err = reply.err]
    ELSE IF ~StoreUint32Ok(reply.body)
    THEN [Ret("SendNotification") EXCEPT !.err = ErrStoreType]
    ELSE [Ret("SendNotification") EXCEPT !.id = reply.body[1].n]

\* The arguments of the Notify call of the flat revision.
NotifyArgsFlat ==
    <<note.AppName, note.ReplacesID, note.AppIcon, note.Summary, note.Body,
      note.Actions, note.Hints, note.ExpireTimeout>>

\* A mutation of SendNotificationFlat: the length is looked at after the call.
SendNotificationFlat_CheckAfterCall ==
    /\ Alive /\ Len(remote) < MaxCalls
    /\ \E reply \in RepliesOn(NotifyReplies) :
         /\ Call(callNotify, NotifyArgsFlat, reply)
         /\ facadeRet' = IF Len(note.Actions) % 2 # 0
                         THEN [Ret("SendNotification") EXCEPT !.err = ErrPairs]
                         ELSE NotifyRetFlat(reply)
    /\ UNCHANGED <<note, closeId, connClosed, handlerVars, newPc,
                   transportVars, loopVars, groupVars, closeVars, countVars>>

\* SendNotification(conn, note) of the flat revision.
SendNotificationFlat ==
    /\ Alive
    /\ IF Len(note.Actions) % 2 # 0
       THEN /\ facadeRet' = [Ret("SendNotification") EXCEPT !.err = ErrPairs]
            /\ remote' = remote
       ELSE /\ Len(remote) < MaxCalls
            /\ \E reply \in RepliesOn(NotifyReplies) :
                 /\ Call(callNotify, NotifyArgsFlat, reply)
                 /\ facadeRet' = NotifyRetFlat(reply)
    /\ UNCHANGED <<note, closeId, connClosed, handlerVars, newPc,
                   transportVars, loopVars, groupVars, closeVars, countVars>>

\* The Notifications of the flat revision.
FlatLists == UNION { [1..n -> {"open", "Open"}] : n \in 0..MaxFlat }
FlatNotes ==
    { [NoteHi EXCEPT !.Actions = as, !.ExpireTimeout = ms, !.ReplacesID = r] :
        as \in FlatLists, ms \in {-1, 0, 5000}, r \in {0, 7} }

InitFlat == \E nt \in FlatNotes : InitWith(BothHandlers, nt)

NextFlat == SendNotificationFlat

SpecFlat == InitFlat /\ [][NextFlat]_vars

\* ---------------------------------------------------- burst specification
\* New and the dispatch loop under a burst of signals.
NextBurst ==
    \/ New_Options
    \/ New_AddMatchSignal
    \/ New_Signal
    \/ Go_Add
    \/ Go_Spawn
    \/ Go_Return
    \/ TransportBurst
    \/ EventLoopReceive
    \/ EventLoopHandle
    \/ HandlerReturn

SpecBurst == Init /\ [][NextBurst]_vars

\* -------------------------------------------------- options specification
\* The option lists New is called with: none, one handler, both, and a nil
\* closure for either kind.
OptionLists ==
    { <<>>, <<WithOnClosed("user")>>, <<WithOnAction("user")>>, BothHandlers,
      <<WithOnClosed("nil")>>, <<WithOnAction("nil")>> }

InitOptions == \E os \in OptionLists : InitWith(os, NoteHi)

\* New and the dispatch loop.
NextOptions ==
    \/ New_Options
    \/ New_AddMatchSignal
    \/ New_Signal
    \/ Go_Add
    \/ Go_Spawn
    \/ Go_Return
    \/ TransportDeliver
    \/ EventLoopReceive
    \/ EventLoopHandle
    \/ HandlerReturn

SpecOptions == InitOptions /\ [][NextOptions]_vars

\* ---------------------------------------------------- frame specification
\* One caller using every operation of the Notifier while events arrive.
NextFrame ==
    \/ New_Options
    \/ New_AddMatchSignal
    \/ New_Signal
    \/ Go_Add
    \/ Go_Spawn
    \/ Go_Return
    \/ TransportWellFormed
    \/ EventLoopReceive
    \/ EventLoopDone
    \/ EventLoopHandle
    \/ HandlerReturn
    \/ Notifier_SendNotification
    \/ Notifier_CloseNotification
    \/ Notifier_GetCapabilities
    \/ Notifier_GetServerInformation
    \/ Close(1)

\* New is called with a closed-handler and no action-handler.
InitFrame == InitWith(<<WithOnClosed("user")>>, NoteHi)

SpecFrame == InitFrame /\ [][NextFrame]_vars

\* ----------------------------------------------- connection specification
\* One caller of a Notifier on a connection that its owner may close.
NextConn ==
    \/ New_Options
    \/ New_AddMatchSignal
    \/ New_Signal
    \/ Go_Add
    \/ Go_Spawn
    \/ Go_Return
    \/ TransportClose
    \/ EventLoopChannelClosed
    \/ EventLoopDone
    \/ Notifier_SendNotification
    \/ Notifier_CloseNotification
    \/ Notifier_GetCapabilities
    \/ Notifier_GetServerInformation
    \/ Close(1)

SpecConn == Init /\ [][NextConn]_vars

\* ------------------------------------------------- decoding specification
\* The inputs of handleSignal: well-formed messages over a range of ids,
\* reason codes and action keys, and the unrecognized ones.
DecodeIds == {0, 1, 7, 42}
DecodeCodes == {0, 1, 2, 3, 4, 5, 99}
DecodeKeys == {"open", "default", ""}
DecodeInputs ==
    {ClosedMsg(id, code) : id \in DecodeIds, code \in DecodeCodes}
    \cup {ActionMsg(id, key) : id \in DecodeIds, key \in DecodeKeys}
    \cup {MUnknownName, MShortBody, MWrongType}

\* The state in which eventLoop has just received one message m: New has
\* returned, the transport has delivered m and the loop has taken it.
InitDecode ==
    /\ newPc = "returned"
    /\ matchRegistered = TRUE
    /\ sigRegistered = TRUE
    /\ signal = <<>>
    /\ signalClosed = FALSE
    /\ loopPc = "handleSignal"
    /\ cur \in DecodeInputs
    /\ calls = <<>>
    /\ consumed = <<cur>>
    /\ delivered = <<cur>>
    /\ done = FALSE
    /\ wg = 0
    /\ onceDone = FALSE
    /\ onceM = 0
    /\ gerr = "nil"
    /\ closePc = [c \in Callers |-> "idle"]
    /\ closeCalls = 0
    /\ closeRets = <<>>
    /\ nCloseDone = 0
    /\ nRemoveSignal = 0
    /\ nRemoveMatch = 0
    /\ opts = BothHandlers
    /\ onClosed = "user"
    /\ onAction = "user"
    /\ ran = <<>>
    /\ logs = {}
    /\ note = NoteHi
    /\ closeId = 0
    /\ connClosed = FALSE
    /\ remote = <<>>
    /\ facadeRet = NoRet

NextDecode ==
    \/ EventLoopHandle
    \/ HandlerReturn

SpecDecode == InitDecode /\ [][NextDecode]_vars

\* ------------------------------------------------- re-entrant specification
\* A handler that calls n.Close(): the call runs on the dispatch task, inside
\* handleSignal.
Handler_Close_Call ==
    /\ Alive /\ newPc = "returned" /\ loopPc = "handler"
    /\ closePc[LoopCaller] = "idle" /\ closeCalls < MaxCloseCalls
    /\ closeCalls' = closeCalls + 1
    /\ SetPc(LoopCaller, "Do")
    /\ UNCHANGED <<newPc, transportVars, loopVars, groupVars, closeRets,
                   countVars>>
    /\ UNCHANGED <<handlerVars, facadeVars>>

Handler_Close ==
    \/ Handler_Close_Call
    \/ CloseSteps(LoopCaller)

\* The handlers may call Close while another caller does.
NextReentrant ==
    \/ New_Options
    \/ New_AddMatchSignal
    \/ New_Signal
    \/ Go_Add
    \/ Go_Spawn
    \/ Go_Return
    \/ TransportWellFormed
    \/ EventLoopReceive
    \/ EventLoopDone
    \/ EventLoopHandle
    \/ HandlerReturn
    \/ Handler_Close
    \/ Close(1)

\* The scheduler runs every goroutine that can take a step; a handler returns
\* once the calls it has made have returned.
FairnessReentrant ==
    /\ WF_vars(EventLoopReceive)
    /\ WF_vars(EventLoopDone)
    /\ WF_vars(EventLoopHandle)
    /\ WF_vars(HandlerReturn)
    /\ WF_vars(CloseSteps(LoopCaller))
    /\ WF_vars(CloseSteps(1))

SpecReentrant == Init /\ [][NextReentrant]_vars /\ FairnessReentrant

\* ------------------------------------------------------ scope specification
\* Signals about two notification ids arrive while the caller sends one
\* notification: the server answers it with one of the two ids or another.
ScopeMsgs ==
    { ClosedMsg(42, 2), ClosedMsg(7, 2), ActionMsg(42, "open"),
      ActionMsg(7, "open") }

TransportScope == Deliver(ScopeMsgs, MaxMsgs)

NextScope ==
    \/ New_Options
    \/ New_AddMatchSignal
    \/ New_Signal
    \/ Go_Add
    \/ Go_Spawn
    \/ Go_Return
    \/ TransportScope
    \/ EventLoopReceive
    \/ EventLoopHandle
    \/ HandlerReturn
    \/ Notifier_SendNotification

SpecScope == Init /\ [][NextScope]_vars

\* ------------------------------------------------------------------ claims
CloseReturned == Len(closeRets) >= 1

WellFormedClosed(m) ==
    /\ m.Name = signalNotificationClosed
    /\ Len(m.Body) >= 2 /\ m.Body[1].t = "uint32" /\ m.Body[2].t = "uint32"
WellFormedAction(m) ==
    /\ m.Name = signalActionInvoked
    /\ Len(m.Body) >= 2 /\ m.Body[1].t = "uint32" /\ m.Body[2].t = "string"
Recognized(m) == WellFormedClosed(m) \/ WellFormedAction(m)
Malformed(m) ==
    /\ m.Name \in {signalNotificationClosed, signalActionInvoked}
    /\ ~Recognized(m)

\* The invocation a recognized message is to produce.
ExpectedCall(m) ==
    IF m.Name = signalNotificationClosed
    THEN [kind |-> "onClosed", ID |-> m.Body[1].n, Reason |-> m.Body[2].n,
          ActionKey |-> ""]
    ELSE [kind |-> "onAction", ID |-> m.Body[1].n, Reason |-> 0,
          ActionKey |-> m.Body[2].s]

RECURSIVE ExpectedCalls(_)
ExpectedCalls(ms) ==
    IF ms = <<>> THEN <<>>
    ELSE IF Recognized(Head(ms))
         THEN <<ExpectedCall(Head(ms))>> \o ExpectedCalls(Tail(ms))
         ELSE ExpectedCalls(Tail(ms))

\* The consumed messages handleSignal has acted on.
Handled ==
    IF loopPc = "handleSignal" THEN SubSeq(consumed, 1, Len(consumed) - 1)
    ELSE consumed

\* C1: whenever a Close() call has returned, the dispatch loop started by New
\* has fully exited.
C1_LoopExitedWhenCloseReturned == CloseReturned => loopPc = "exited"

\* C2: Close() blocks until the handler invocation in progress has completed,
\* and no handler invocation begins or is running once Close() has returned.
C2_NoHandlerAfterCloseReturned == CloseReturned => loopPc # "handler"

\* The steps that are not the caller's or the transport's to take: the loop's
\* and those of the Close calls in progress.
Progress ==
    \/ EventLoopReceive \/ EventLoopChannelClosed \/ EventLoopDone
    \/ EventLoopHandle \/ HandlerReturn
    \/ \E c \in Closers :
         \/ Once_Fast(c) \/ Once_Lock(c) \/ Close_CloseDone(c) \/ Close_Wait(c)
         \/ Close_RemoveSignal(c) \/ Close_RemoveMatchSignal(c)
         \/ Once_Unlock(c) \/ Close_Return(c)

\* C3: Close() is idempotent: over any number of calls the shutdown signal is
\* raised once and RemoveSignal and RemoveMatchSignal run once each, no call
\* panics or is stuck for good, and once a call has returned the state is the
\* one the single cleanup left, whichever call it was.
C3_CloseIdempotent ==
    /\ nCloseDone <= 1 /\ nRemoveSignal <= 1 /\ nRemoveMatch <= 1
    /\ \A c \in Closers : closePc[c] # "panicked"
    /\ (Alive /\ \E c \in Closers : closePc[c] # "idle") => ENABLED Progress
    /\ CloseReturned =>
         /\ nCloseDone = 1 /\ nRemoveSignal = 1 /\ nRemoveMatch = 1
         /\ done /\ onceDone /\ ~sigRegistered /\ wg = 0
         /\ matchRegistered = (gerr = "err")

\* Two Close calls have returned and every caller is back.
C3_Witness ==
    /\ Len(closeRets) = 2
    /\ \A c \in Closers : closePc[c] = "idle"
    /\ nCloseDone = 1

\* C4: every Close() call returns the same value, the result of the single
\* cleanup: never nil from one call and the error from another.
C4_SameResult ==
    CloseReturned =>
        /\ nRemoveMatch = 1
        /\ \A i \in 1..Len(closeRets) : closeRets[i] = gerr
        /\ \A i, j \in 1..Len(closeRets) : closeRets[i] = closeRets[j]

\* Two calls have returned the deregistration error.
C4_Witness == Len(closeRets) >= 2 /\ closeRets[1] = "err" /\ closeRets[2] = "err"

\* C5: handlers are invoked in the order in which the transport queued the
\* messages, one invocation per recognized message, with no reordering,
\* coalescing or de-duplication.
C5_InOrder ==
    /\ consumed \o signal = delivered
    /\ calls = ExpectedCalls(Handled)

\* M1 (closed, id 7, reason 2) then M2 (action, id 7, key "open") gave onClosed
\* then onAction, once each.
C5_Witness ==
    /\ delivered = <<M1, M2>>
    /\ calls = <<[kind |-> "onClosed", ID |-> 7, Reason |-> ReasonDismissedByUser,
                  ActionKey |-> ""],
                 [kind |-> "onAction", ID |-> 7, Reason |-> 0, ActionKey |-> "open"]>>
    /\ ReasonString(calls[1].Reason) = "DismissedByUser"

\* C6: handleSignal dispatches on the message name: a well-formed
\* NotificationClosed (id, code) gives exactly one onClosed invocation with that
\* id and the reason of that code and no onAction; a well-formed ActionInvoked
\* (id, key) gives exactly one onAction invocation with that id and key and no
\* onClosed; handlers are invoked by no other step.
C6_DispatchOnName ==
    [][ /\ (loopPc = "handleSignal" /\ loopPc' # "handleSignal" /\ WellFormedClosed(cur))
           => calls' = Append(calls, [kind |-> "onClosed", ID |-> cur.Body[1].n,
                                      Reason |-> cur.Body[2].n, ActionKey |-> ""])
        /\ (loopPc = "handleSignal" /\ loopPc' # "handleSignal" /\ WellFormedAction(cur))
           => calls' = Append(calls, [kind |-> "onAction", ID |-> cur.Body[1].n,
                                      Reason |-> 0, ActionKey |-> cur.Body[2].s])
        /\ calls' # calls => (loopPc = "handleSignal" /\ Recognized(cur))
      ]_vars

\* The loop is inside onAction for M2, invoked with id 7 and key "open".
C6_Witness ==
    /\ loopPc = "handler" /\ cur = M2
    /\ calls[Len(calls)] = [kind |-> "onAction", ID |-> 7, Reason |-> 0,
                            ActionKey |-> "open"]

\* C7: a NotificationClosed or ActionInvoked message whose body has not the
\* expected shape does not crash the loop and invokes no handler: it is
\* dropped and the loop goes back to waiting.
C7_MalformedDropped ==
    [][ (loopPc = "handleSignal" /\ loopPc' # "handleSignal" /\ Malformed(cur))
        => (loopPc' = "select" /\ calls' = calls) ]_vars

\* C8: a message whose name is neither NotificationClosed nor ActionInvoked
\* invokes no handler and does not stop the loop, which goes back to waiting
\* for the messages that follow.
C8_UnknownNameIgnored ==
    [][ (/\ loopPc = "handleSignal" /\ loopPc' # "handleSignal"
         /\ cur.Name \notin {signalNotificationClosed, signalActionInvoked})
        => (loopPc' = "select" /\ calls' = calls) ]_vars

\* A recognized message queued after an unknown one has reached its handler.
C8_Witness ==
    /\ consumed = <<MUnknownName, M1>>
    /\ calls = <<ExpectedCall(M1)>>
    /\ loopPc = "handler"

\* C9 as stated: the reason delivered to onClosed is one of the four
\* enumerated reasons, codes 1..4 giving themselves and every other code
\* ReasonUnknown.
C9_ReasonEnumerated ==
    \A i \in 1..Len(calls) :
        calls[i].kind = "onClosed" =>
            /\ calls[i].Reason \in {ReasonExpired, ReasonDismissedByUser,
                                    ReasonClosedByCall, ReasonUnknown}
            /\ cur.Body[2].n \notin 1..4 => calls[i].Reason = ReasonUnknown

\* C9 as amended: codes 1, 2, 3, 4 give Expired, DismissedByUser, ClosedByCall,
\* Unknown; every other code is delivered unchanged, a Reason outside the four
\* named ones whose String() is "Other"; decoding a code is never an error.
C9_ReasonKeepsCode ==
    /\ (loopPc # "handleSignal" /\ WellFormedClosed(cur)) => Len(calls) = 1
    /\ \A i \in 1..Len(calls) :
        calls[i].kind = "onClosed" =>
            LET code == cur.Body[2].n IN
            /\ calls[i].Reason = code
            /\ ReasonString(calls[i].Reason) =
                 CASE code = 1 -> "Expired"
                   [] code = 2 -> "DismissedByUser"
                   [] code = 3 -> "ClosedByCall"
                   [] code = 4 -> "Unknown"
                   [] OTHER -> "Other"

\* onClosed has been invoked for reason code 99.
C9_Witness ==
    /\ cur = ClosedMsg(7, 99)
    /\ Len(calls) = 1 /\ calls[1].kind = "onClosed" /\ calls[1].Reason = 99
    /\ ReasonString(calls[1].Reason) = "Other"

\* C10: if registering the filter fails, New returns an error and leaves no
\* partial state: no loop has been spawned, the queue is not registered, and
\* nothing is left of the filter or of the group's counter.
C10_NoPartialState ==
    newPc = "failed" =>
        /\ loopPc = "none" /\ ~sigRegistered /\ ~matchRegistered
        /\ wg = 0 /\ ~done /\ signal = <<>> /\ calls = <<>>

\* New has failed.
C10_Witness == newPc = "failed" /\ loopPc = "none"

\* C11: when the filter deregistration fails, Close returns that error and the
\* dispatch loop has exited by the time Close returns, so that no handler runs
\* afterwards.
C11_InertAfterFailedDeregistration ==
    (CloseReturned /\ closeRets[1] = "err") =>
        (gerr = "err" /\ loopPc = "exited")

\* C12: Close() on a Notifier that has received no message: the loop
\* terminates (it does not stay waiting for a message) and Close returns, with
\* nil exactly when the deregistration succeeded.
C12_QuietCloseTerminates ==
    /\ [](CloseReturned => ((closeRets[1] = "nil") <=> ~matchRegistered))
    /\ (closeCalls >= 1 /\ delivered = <<>>)
         ~> (delivered # <<>> \/ (loopPc = "exited" /\ CloseReturned))

\* No message was ever delivered, the loop has left on the shutdown signal and
\* Close has returned nil.
C12_Witness ==
    /\ delivered = <<>> /\ ~signalClosed
    /\ loopPc = "exited" /\ LogGotClose \in logs
    /\ CloseReturned /\ closeRets[1] = "nil"

\* C13 as stated: once the shutdown signal has been raised, no message is
\* taken from the subscription queue any more.
C13_NothingTakenAfterShutdown == [][done => consumed' = consumed]_vars

\* C13 as amended: when the loop takes the shutdown case of its select it
\* terminates at once without draining: what is in the queue stays there, and
\* a loop that has exited takes no message and invokes no handler. (Until it
\* takes that case, select may still pick a message that is ready.)
C13_ExitWithoutDraining ==
    [][ /\ (loopPc = "select" /\ done /\ LogGotClose \in logs' /\ LogGotClose \notin logs)
           => (/\ loopPc' = "exited" /\ signal' = signal
               /\ consumed' = consumed /\ calls' = calls)
        /\ loopPc = "exited"
           => (loopPc' = "exited" /\ consumed' = consumed /\ calls' = calls)
      ]_vars

\* The loop has left on the shutdown signal with a message still queued.
C13_Witness ==
    /\ loopPc = "exited" /\ LogGotClose \in logs
    /\ signal # <<>> /\ Len(consumed) < Len(delivered)

\* C14: when the transport closes the subscription queue, the loop terminates
\* without invoking a handler for the closure and without a panic, and a
\* Close() call made afterwards (or under way) still returns.
C14_ChannelClosedEndsLoop ==
    /\ [][ (/\ loopPc = "select" /\ signalClosed /\ signal = <<>> /\ ~done
            /\ loopPc' # loopPc)
           => (/\ loopPc' = "exited" /\ LogChannelClosed \in logs'
               /\ calls' = calls /\ ran' = ran /\ consumed' = consumed) ]_vars
    /\ [](LogChannelClosed \in logs => (loopPc = "exited" /\ Alive))
    /\ (LogChannelClosed \in logs /\ \E c \in Closers : closePc[c] # "idle")
         ~> CloseReturned

\* The loop has left because the channel was closed, and a Close() call has
\* returned after that.
C14_Witness ==
    /\ LogChannelClosed \in logs /\ LogGotClose \notin logs
    /\ loopPc = "exited" /\ CloseReturned

\* The transport is connected to the subscription queue.
Subscribed == Alive /\ sigRegistered /\ ~signalClosed

\* C15 as stated: in every reachable state, also while a handler runs, the
\* transport can place the next message on the subscription queue without
\* blocking.
C15_TransportNeverBlocks == Subscribed => Len(signal) < channelBufferSize

\* C15 as amended: the queue buffers channelBufferSize messages; while fewer
\* are waiting the transport can place the next one without blocking, whatever
\* the loop is doing, and once channelBufferSize are waiting (a handler that
\* runs long enough) the next send waits for the loop to take one.
C15_BlocksOnlyWhenFull ==
    /\ Len(signal) <= channelBufferSize
    /\ (Subscribed /\ Len(delivered) < MaxBurst) =>
         (ENABLED TransportBurst <=> Len(signal) < channelBufferSize)

\* A handler is running and the queue is full.
C15_Witness == loopPc = "handler" /\ Len(signal) = channelBufferSize

\* C16: the dispatch task is started once, by New's group.Go, and never a
\* second time; while a handler invocation has not returned, no other handler
\* is invoked and the loop takes no later message: the only thing the loop
\* does next is the handler's return.
C16_SingleSynchronousDispatch ==
    [][ /\ (loopPc = "none" /\ loopPc' # "none") =>
              (newPc = "Go_spawn" /\ loopPc' = "select")
        /\ loopPc # "none" => (loopPc' # "none" /\ newPc' \in {newPc, "returned"})
        /\ loopPc = "handler" =>
              /\ calls' = calls /\ ran' = ran
              /\ consumed' = consumed /\ cur' = cur
              /\ loopPc' \in {"handler", "select"}
              /\ Len(ran) = Len(calls) ]_vars

\* A handler is running with later messages waiting in the queue.
C16_Witness ==
    /\ loopPc = "handler" /\ signal # <<>>
    /\ Len(calls) = 1 /\ Len(delivered) = MaxMsgs

\* New was given an option of this name.
Supplied(name) == \E i \in 1..Len(opts) : opts[i].opt = name

\* The message in hand is of a kind New was given no option for.
NoOptionForCur ==
    \/ handleSignal(cur).out = "onClosed" /\ ~Supplied("WithOnClosed")
    \/ handleSignal(cur).out = "onAction" /\ ~Supplied("WithOnAction")

\* C17: once the options are applied, a kind without an option has the no-op
\* default as its handler; dispatching a message of such a kind calls that
\* default (never an absent handler, so no panic), changes nothing else, and
\* when the default returns the loop is back in its select.
C17_DefaultHandlers ==
    /\ [](newPc # "options" =>
            /\ ~Supplied("WithOnClosed") => onClosed = "default"
            /\ ~Supplied("WithOnAction") => onAction = "default")
    /\ [][ /\ (loopPc = "handleSignal" /\ loopPc' # loopPc /\ NoOptionForCur) =>
                /\ loopPc' = "handler"
                /\ ran' = Append(ran, "default")
                /\ UNCHANGED <<newPc, transportVars, cur, consumed, logs,
                               groupVars, closeVars, countVars, handlerVars,
                               facadeVars>>
           /\ (loopPc = "handler" /\ ran[Len(ran)] = "default"
                 /\ loopPc' # loopPc) =>
                /\ loopPc' = "select"
                /\ UNCHANGED <<newPc, transportVars, cur, calls, consumed,
                               ran, logs, groupVars, closeVars, countVars,
                               handlerVars, facadeVars>> ]_vars

\* New had no option at all, two events went to the defaults, and the loop is
\* back in its select.
C17_Witness ==
    /\ opts = <<>> /\ ran = <<"default", "default">>
    /\ Len(consumed) = 2 /\ loopPc = "select" /\ Alive

\* C18: once New is past its options loop, no step of any operation writes a
\* handler field: SendNotification, CloseNotification, GetCapabilities,
\* GetServerInformation, every step of Close and every step of the dispatch
\* loop leave onClosed and onAction as they are; and the options loop writes
\* exactly what the options say on top of the defaults.
C18_HandlersWrittenOnlyByNew ==
    /\ [][newPc # "options" => UNCHANGED <<onClosed, onAction>>]_vars
    /\ [](newPc # "options" =>
            [onClosed |-> onClosed, onAction |-> onAction]
              = ApplyOptions(newNotifier, opts))

\* Every kind of operation has acted on a Notifier that was given a handler:
\* a facade call was made, an event was dispatched, and Close has returned.
C18_Witness ==
    /\ Supplied("WithOnClosed") /\ onClosed = "user"
    /\ remote # <<>> /\ ran # <<>> /\ CloseReturned /\ loopPc = "exited"

\* The Notify calls made so far.
NotifyCalls == { i \in 1..Len(remote) : remote[i].method = callNotify }

\* C19: the action list of every Notify call has 2 x len(Actions) elements,
\* element 2i-1 being the key and element 2i the label of the i-th Action;
\* no Actions give the empty list.
C19_ActionsInterleaved ==
    \A c \in NotifyCalls :
      LET sent == remote[c].args[6]
          n == Len(note.Actions)
      IN /\ Len(sent) = 2 * n
         /\ \A i \in 1..n : /\ sent[2 * i - 1] = note.Actions[i].Key
                            /\ sent[2 * i] = note.Actions[i].Label

\* A Notification with two different Actions was sent.
C19_Witness ==
    /\ NotifyCalls # {} /\ Len(note.Actions) = 2
    /\ note.Actions[1] # note.Actions[2]
    /\ Len(remote[1].args[6]) = 4

\* C20: in the flat revision, SendNotification with an odd number of raw
\* action strings returns id 0 and the pairs error, and no call is ever made
\* for such a Notification.
C20_OddRejectedBeforeCall ==
    /\ [](Len(note.Actions) % 2 = 1 => remote = <<>>)
    /\ [][ (Len(note.Actions) % 2 = 1 /\ facadeRet' # facadeRet) =>
             /\ facadeRet'.id = 0
             /\ facadeRet'.err = ErrPairs
             /\ remote' = remote ]_vars

\* SendNotification has returned for a list of three strings.
C20_Witness ==
    /\ Len(note.Actions) = 3 /\ facadeRet.op = "SendNotification"
    /\ facadeRet.id = 0 /\ facadeRet.err = ErrPairs /\ remote = <<>>

\* The expire_timeout argument of a Notify call.
SentTimeout(c) == remote[c].args[8]

\* C21: never expire is sent as 0, set by notification server as -1 and an
\* explicit 1500 ms as 1500; Milliseconds() of the two constants is 0 and -1.
C21_ExpirationEncoding ==
    /\ Milliseconds(ExpireTimeoutNever) = [sign |-> 1, h |-> 0, l |-> 0]
    /\ Milliseconds(ExpireTimeoutSetByNotificationServer)
         = [sign |-> -1, h |-> 0, l |-> 1]
    /\ \A c \in NotifyCalls :
         /\ note.ExpireTimeout = ExpireTimeoutNever => SentTimeout(c) = 0
         /\ note.ExpireTimeout = ExpireTimeoutSetByNotificationServer
              => SentTimeout(c) = -1
         /\ note.ExpireTimeout = Duration(1, 0, 1500, 0)
              => SentTimeout(c) = 1500

\* A Notification left to the server's expiration was sent.
C21_Witness ==
    /\ NotifyCalls # {}
    /\ note.ExpireTimeout = ExpireTimeoutSetByNotificationServer
    /\ SentTimeout(1) = -1

\* C22 as stated: a duration d >= 0 (here below 2^16 ms) is sent as the whole
\* number of milliseconds nearest to d.
C22_NearestMillisecond ==
    \A c \in NotifyCalls :
      LET d == note.ExpireTimeout
      IN (d.sign = 1 /\ d.h = 0) =>
           SentTimeout(c) = d.l + (IF 2 * d.r >= NanosPerMilli THEN 1 ELSE 0)

\* C22 as amended: a duration d >= 0 is sent as its whole milliseconds with
\* the fraction dropped (1.7 ms is sent as 1), as long as that count is below
\* 2^31; from 2^31 ms on, the value sent is the low 32 bits of the count.
C22_TruncatedMilliseconds ==
    \A c \in NotifyCalls :
      LET d == note.ExpireTimeout
          sent == SentTimeout(c)
      IN d.sign = 1 =>
           /\ d.h < Limb \div 2 => sent = d.h * Limb + d.l
           /\ sent % Limb = d.l
           /\ ((sent - d.l) \div Limb) % Limb = d.h % Limb

\* 1.7 ms was sent as 1.
C22_Witness ==
    /\ NotifyCalls # {}
    /\ note.ExpireTimeout = Duration(1, 0, 1, 700000)
    /\ SentTimeout(1) = 1

\* The last call made on the connection, with its reply.
LastCall == remote[Len(remote)]

\* The server answered the last call with an id.
RepliedId == LastCall.reply.err = NilError /\ StoreUint32Ok(LastCall.reply.body)

\* C23: an invocation of SendNotification makes exactly one call, a Notify
\* call, and when the server replies with id k it returns (k, nil).
C23_ReturnsServerId ==
    [][ (remote' # remote \/ facadeRet' # facadeRet) =>
          LET c == remote'[Len(remote')]
          IN /\ remote' = Append(remote, c)
             /\ c.method = callNotify
             /\ (c.reply.err = NilError /\ StoreUint32Ok(c.reply.body)) =>
                  facadeRet' = [Ret("SendNotification") EXCEPT
                                  !.id = c.reply.body[1].n] ]_vars

\* The server replied 42 to the one call, and 42 came back with no error.
C23_Witness ==
    /\ Len(remote) = 1 /\ LastCall.reply = Reply(NilError, <<U32(42)>>)
    /\ facadeRet.id = 42 /\ facadeRet.err = NilError

\* C25 as stated: when the Notify call fails, SendNotification returns id 0
\* and the very error of the transport.
C25_ErrorVerbatim ==
    (remote # <<>> /\ LastCall.reply.err # NilError) =>
       (facadeRet.id = 0 /\ facadeRet.err = LastCall.reply.err)

\* C25 as amended: when the Notify call fails, SendNotification returns id 0
\* and a new error that wraps the transport's error (errors.Unwrap gives it
\* back), its text prefixed with "error sending notification: ".
C25_ErrorWrapped ==
    (remote # <<>> /\ LastCall.reply.err # NilError) =>
       /\ facadeRet.id = 0
       /\ facadeRet.err # LastCall.reply.err
       /\ Unwrap(facadeRet.err) = LastCall.reply.err
       /\ facadeRet.err.msg
            = "error sending notification: " \o LastCall.reply.err.msg

\* A Notify call has failed and SendNotification has returned.
C25_Witness ==
    /\ remote # <<>> /\ LastCall.reply.err = CallErr
    /\ facadeRet.op = "SendNotification" /\ facadeRet.err.cause = CallErr.msg

NewCall == remote'[Len(remote')]

\* C24: an invocation of CloseNotification(id) makes exactly one call,
\* CloseNotification with the single argument id, returns (true, nil) when
\* the call succeeds and (false, the call's error) when it fails, and runs no
\* handler; a handler invocation begins only in handleSignal, on a message
\* the dispatch loop received.
C24_CloseNotificationCall ==
    /\ [][ (closeId' # closeId
             \/ (remote' # remote /\ NewCall.method = callCloseNotification))
           => /\ remote' = Append(remote, NewCall)
              /\ NewCall.method = callCloseNotification
              /\ NewCall.args = <<closeId'>>
              /\ facadeRet' =
                   IF NewCall.reply.err = NilError
                   THEN [Ret("CloseNotification") EXCEPT !.ok = TRUE]
                   ELSE [Ret("CloseNotification") EXCEPT
                           !.err = NewCall.reply.err]
              /\ UNCHANGED loopVars ]_vars
    /\ [][ (calls' # calls \/ ran' # ran) =>
             /\ loopPc = "handleSignal" /\ remote' = remote
             /\ Len(calls') = Len(calls) + 1
             /\ calls'[Len(calls')].kind = "onClosed"
                  => cur.Name = signalNotificationClosed ]_vars

\* CloseNotification(42) has returned true and no handler has run.
C24_Witness ==
    /\ facadeRet = [Ret("CloseNotification") EXCEPT !.ok = TRUE]
    /\ closeId = 42 /\ Len(remote) = 1 /\ LastCall.args = <<42>>
    /\ calls = <<>> /\ loopPc = "select"

\* The operation a call belongs to.
OpOf(method) ==
    CASE method = callNotify -> "SendNotification"
      [] method = callCloseNotification -> "CloseNotification"
      [] method = callGetCapabilities -> "GetCapabilities"
      [] method = callGetServerInformation -> "GetServerInformation"

\* C26: every invocation of SendNotification, CloseNotification,
\* GetCapabilities or GetServerInformation adds exactly one call to the calls
\* on the connection, whether the call succeeds or fails, and a failed call
\* gives that invocation an error as its result.
C26_OneCallNoRetry ==
    [][ (remote' # remote \/ facadeRet' # facadeRet) =>
          /\ remote' = Append(remote, NewCall)
          /\ facadeRet'.op = OpOf(NewCall.method)
          /\ NewCall.reply.err # NilError =>
               /\ facadeRet'.err # NilError
               /\ \/ facadeRet'.err = NewCall.reply.err
                  \/ Unwrap(facadeRet'.err) = NewCall.reply.err
                  \/ facadeRet'.err =
                       Errorf_v("error calling " \o callGetServerInformation
                                \o ": ", NewCall.reply.err) ]_vars

\* A GetCapabilities call failed: one call was made and the error came back.
C26_Witness ==
    /\ Len(remote) = 1 /\ LastCall.method = callGetCapabilities
    /\ LastCall.reply.err = CallErr /\ facadeRet.err = CallErr

\* A facade call that succeeds.
SucceedingCall ==
    /\ \/ Notifier_SendNotification
       \/ Notifier_GetCapabilities
       \/ Notifier_GetServerInformation
    /\ NewCall.reply.err = NilError

\* C30: no step of Close changes the open/closed state of the connection, and
\* on a connection nobody else closed, SendNotification and the queries still
\* make their call, which can succeed, after Close has returned.
C30_CloseLeavesConnOpen ==
    /\ [][ connClosed' # connClosed =>
             UNCHANGED <<closeVars, groupVars, countVars>> ]_vars
    /\ [](connClosed => signalClosed)
    /\ []((CloseReturned /\ ~connClosed /\ NotifierReady /\ Alive)
            => ENABLED SucceedingCall)

\* Close has returned, the connection is open, and a call made now can
\* succeed.
C30_Witness ==
    /\ CloseReturned /\ nRemoveMatch = 1 /\ ~connClosed /\ remote = <<>>
    /\ ENABLED SucceedingCall

\* A query call.
IsQuery(c) == c.method \in {callGetCapabilities, callGetServerInformation}

\* An invocation of a query whose call gets the reply r.
CapsGets(r) == GetCapabilities /\ remote' # remote /\ NewCall.reply = r
InfoGets(r) == GetServerInformation /\ remote' # remote /\ NewCall.reply = r

\* C28: every invocation of GetCapabilities or GetServerInformation makes a
\* call of its own and returns what that call's reply holds, whatever an
\* earlier invocation returned; both can be invoked in every state, also
\* before any SendNotification, and get whatever the server answers then.
C28_QueriesPassThrough ==
    /\ [][ (facadeRet' # facadeRet /\ facadeRet'.op # "SendNotification") =>
             /\ remote' = Append(remote, NewCall)
             /\ IsQuery(NewCall) /\ NewCall.args = <<>>
             /\ facadeRet'.op = OpOf(NewCall.method)
             /\ (NewCall.method = callGetCapabilities
                   /\ NewCall.reply.err = NilError
                   /\ Len(NewCall.reply.body) = 1)
                  => (facadeRet'.caps = NewCall.reply.body[1]
                        /\ facadeRet'.err = NilError)
             /\ (NewCall.method = callGetServerInformation
                   /\ NewCall.reply.err = NilError
                   /\ Len(NewCall.reply.body) = 4)
                  => (facadeRet'.info.Version = NewCall.reply.body[3].s
                        /\ facadeRet'.info.Name = NewCall.reply.body[1].s
                        /\ facadeRet'.err = NilError) ]_vars
    /\ [](Len(remote) < MaxCalls =>
            /\ \A r \in CapsReplies : ENABLED CapsGets(r)
            /\ \A r \in InfoReplies : ENABLED InfoGets(r))

\* Two GetCapabilities calls got different answers, and the second invocation
\* returned the second answer.
C28_Witness ==
    /\ Len(remote) = 2
    /\ remote[1].method = callGetCapabilities
    /\ remote[2].method = callGetCapabilities
    /\ remote[1].reply = Reply(NilError, <<<<"body", "actions">>>>)
    /\ remote[2].reply = Reply(NilError, <<<<"body">>>>)
    /\ facadeRet.caps = <<"body">>

\* C29: the free functions make one call per invocation and leave the
\* subscription alone: no filter and no queue is registered, and no task is
\* started or counted.
C29_FreeFunctionsLeaveSubscription ==
    /\ [][ remote' # remote =>
             /\ remote' = Append(remote, NewCall)
             /\ UNCHANGED <<newPc, transportVars, loopVars, groupVars,
                            closeVars, countVars, handlerVars>> ]_vars
    /\ [](~matchRegistered /\ ~sigRegistered /\ loopPc = "none" /\ wg = 0)

\* SendNotification and GetServerInformation were used, and nothing is
\* registered or running.
C29_Witness ==
    /\ Len(remote) = 2
    /\ remote[1].method = callNotify
    /\ remote[2].method = callGetServerInformation
    /\ ~matchRegistered /\ ~sigRegistered /\ loopPc = "none"

\* The ids this Notifier's SendNotification has returned so far.
OwnIds ==
    { remote[i].reply.body[1].n :
        i \in { j \in NotifyCalls : /\ remote[j].reply.err = NilError
                                    /\ StoreUint32Ok(remote[j].reply.body) } }

\* C31: event delivery is not scoped to the Notifier's own notifications:
\* every well-formed closed or action message eventLoop has taken is handed to
\* its handler with the id it carries, whether or not that id was ever
\* returned by this Notifier's SendNotification.
C31_EventsNotScoped ==
    [][(loopPc = "handleSignal" /\ loopPc' # "handleSignal" /\ Recognized(cur))
         => /\ loopPc' = "handler"
            /\ calls' = Append(calls, ExpectedCall(cur))
            /\ ran' = Append(ran, "user")]_vars

\* A message for an id SendNotification returned and a message for an id it
\* never returned have both reached a handler.
C31_Witness ==
    /\ OwnIds # {}
    /\ \E i \in 1..Len(calls) : calls[i].ID \in OwnIds
    /\ \E i \in 1..Len(calls) : calls[i].ID \notin OwnIds

\* C32: SendNotification issues the Notify call with exactly eight positional
\* arguments, in the order app_name, replaces_id, app_icon, summary, body,
\* actions, hints, expire_timeout, each taken from the corresponding field of
\* the Notification (actions flattened, the timeout in milliseconds), and the
\* hints are forwarded unchanged.
C32_EightArguments ==
    \A c \in NotifyCalls :
      LET a == remote[c].args
      IN /\ Len(a) = 8
         /\ a[1] = note.AppName
         /\ a[2] = note.ReplacesID
         /\ a[3] = note.AppIcon
         /\ a[4] = note.Summary
         /\ a[5] = note.Body
         /\ a[6] = FlattenActions(note.Actions)
         /\ a[7] = note.Hints
         /\ a[8] = Int32(Milliseconds(note.ExpireTimeout))

\* A Notification with eight different field values, hints among them, has
\* been sent.
C32_Witness ==
    /\ NotifyCalls # {}
    /\ note = NoteFull
    /\ note.Hints # {}
    /\ note.Summary # note.Body /\ note.AppName # note.AppIcon

\* The dispatch loop task is running.
LoopRunning == loopPc \in {"select", "handleSignal", "handler"}

\* C33, as stated: when New returns successfully the bus-level filter is
\* registered, the inbound queue is registered with the transport and the one
\* dispatch loop task is running; the loop is spawned once, and only after
\* the filter and the queue have been registered.
C33_LoopRunningOnReturn ==
    /\ [][(newPc # "returned" /\ newPc' = "returned")
            => (matchRegistered' /\ sigRegistered' /\ LoopRunning')]_vars
    /\ [][(loopPc = "none" /\ loopPc' # "none")
            => (matchRegistered /\ sigRegistered /\ newPc = "Go_spawn")]_vars
    /\ [][loopPc # "none" => loopPc' # "none"]_vars

\* C33, amended: the same, the loop running on return provided the
\* connection has not been closed since the loop was spawned (a closed
\* connection closes the queue, on which the loop exits).
C33_NewPostcondition ==
    /\ [][(newPc # "returned" /\ newPc' = "returned")
            => /\ matchRegistered' /\ sigRegistered'
               /\ ~signalClosed' => LoopRunning']_vars
    /\ [][(loopPc = "none" /\ loopPc' # "none")
            => (matchRegistered /\ sigRegistered /\ newPc = "Go_spawn")]_vars
    /\ [][loopPc # "none" => loopPc' # "none"]_vars

\* New has just returned: filter and queue registered, the loop waiting in its
\* select, no Close called yet.
C33_Witness ==
    /\ newPc = "returned" /\ closeCalls = 0
    /\ matchRegistered /\ sigRegistered /\ loopPc = "select"

\* The steps of the one-shot cleanup: raising the shutdown signal, the wait
\* and the two deregistrations.
InCleanup(c) ==
    closePc[c] \in {"close_done", "wait", "RemoveSignal", "RemoveMatchSignal"}

\* C34: when several Close() calls run concurrently, a call that is about to
\* return finds the shutdown signal raised and the single deregistration
\* complete, and no other call is still inside the cleanup: the caller that
\* lost the one-shot guard has waited for the winner.
C34_LoserWaits ==
    \A c \in Closers :
      closePc[c] = "return" =>
        /\ done /\ nCloseDone = 1
        /\ nRemoveSignal = 1 /\ nRemoveMatch = 1 /\ ~sigRegistered
        /\ onceDone
        /\ \A d \in Closers : ~InCleanup(d)

\* Two overlapping calls are both about to return.
C34_Witness ==
    /\ closePc[1] = "return" /\ closePc[2] = "return"
    /\ nCloseDone = 1 /\ nRemoveMatch = 1

\* The handler running on the dispatch task is inside a Close() call.
HandlerInClose == closePc[LoopCaller] # "idle"

C36_QueueDeregistered ==
    /\ [](CloseReturned => (~sigRegistered /\ nRemoveSignal = 1))
    /\ [][nRemoveMatch' # nRemoveMatch
            => (nRemoveSignal = 1 /\ ~sigRegistered /\ ~sigRegistered')]_vars

\* Close has returned the error of a failed filter deregistration: the filter
\* is still registered, the queue is not.
C36_Witness ==
    /\ CloseReturned /\ closeRets[1] = "err"
    /\ matchRegistered /\ ~sigRegistered /\ nRemoveSignal = 1

\* C37: for every list of options accepted by New, WithOnClosed or
\* WithOnAction with an absent (nil) handler included, both handler fields
\* hold a callable handler whenever the dispatch loop invokes them: once the
\* options are applied neither field is nil, and dispatching a well-formed
\* message never ends in a failure.
C37_HandlersCallable ==
    /\ newPc # "options" => (onClosed # "nil" /\ onAction # "nil")
    /\ (loopPc = "handleSignal" /\ Recognized(cur))
         => HandlerFor(handleSignal(cur).out) # "nil"
    /\ (loopPc = "panicked" /\ Recognized(cur))
         => HandlerFor(handleSignal(cur).out) # "nil"

\* C38: for every expiration duration d >= 0 the expire_timeout sent is a
\* non-negative number of milliseconds: the conversion to int32 never turns a
\* non-negative duration into a negative value, in particular never into the
\* server-default sentinel -1.
C38_NonNegativeTimeout ==
    \A c \in NotifyCalls :
      note.ExpireTimeout.sign = 1 =>
        /\ SentTimeout(c) >= 0
        /\ SentTimeout(c) # Int32(Milliseconds(ExpireTimeoutSetByNotificationServer))

\* C39: the group's outstanding-task counter stays above zero for as long as
\* the task started through group.Go is running: it is decremented only when
\* that task has returned, so no caller of group.Close is past the wait while
\* the task runs.
C39_CounterTracksTask ==
    /\ [](LoopRunning => wg > 0)
    /\ [][wg' < wg => loopPc = "exited"]_vars
    /\ [][\A c \in Callers :
            (closePc[c] = "wait" /\ closePc'[c] # "wait") => ~LoopRunning]_vars

====
